---- MODULE Spec2Model ----
(***************************************************************************)
(* Model of the pipeline orchestration engine of                           *)
(* isabella-AA/insurance-marketing-system: AgentRunner (agent_runner.py)   *)
(* and the continuous-run loop of BaseAgent (agents/base_agent.py).        *)
(***************************************************************************)
EXTENDS Integers, Sequences, FiniteSets, TLC

(***************************************************************************)
(* Bounds of the model.                                                    *)
(***************************************************************************)
MaxCycles == 2      \* cycles the timed-repeating loop may start
MaxToggles == 2     \* calls of enable_agent / disable_agent
MaxRestarts == 1    \* threads started by restart_agent
MaxIters == 1       \* run_forever iterations of all worker threads together
MaxDesc == 4        \* descriptors of an arbitrary descriptor set (SpecResolve)
MaxPrio == 2        \* priorities of an arbitrary descriptor set (SpecResolve)
MaxFaults == 1      \* exceptions raised by _run_pipeline_once itself (SpecCycle)
MaxStages == 2      \* stages left enabled when run() is called (SpecForever)

(***************************************************************************)
(* Program constants.                                                      *)
(***************************************************************************)
None == 0                 \* Python None for a time stamp; the clock starts at 1
FallbackDelay == 60       \* time.sleep(60) after a failed cycle
StaggerDelay == 1         \* time.sleep(1) between worker starts
PollPeriod == 10          \* time.sleep(10) of the monitor loop
DefaultGlobalInterval == 300
DefaultPipelineDelay == 60
DefaultAgentInterval == 300

\* self.agent_configs as registered by AgentRunner.__init__; the display names
\* (Chinese strings in the source) are written in English
RegisteredConfigs ==
  << [module |-> "agents.hotspot_agent", name |-> "hotspot_fetch", priority |-> 1,
      dependencies |-> << >>, enabled |-> TRUE],
     [module |-> "agents.risk_analyzer_agent", name |-> "risk_analysis", priority |-> 2,
      dependencies |-> << "hotspot_agent" >>, enabled |-> TRUE],
     [module |-> "agents.material_collector_agent", name |-> "material_collection", priority |-> 3,
      dependencies |-> << "risk_analyzer_agent" >>, enabled |-> TRUE],
     [module |-> "agents.product_matcher_agent", name |-> "product_matching", priority |-> 4,
      dependencies |-> << "risk_analyzer_agent" >>, enabled |-> TRUE],
     [module |-> "agents.content_creator_agent", name |-> "content_creation", priority |-> 5,
      dependencies |-> << "material_collector_agent", "product_matcher_agent" >>,
      enabled |-> TRUE],
     [module |-> "agents.editor_agent", name |-> "content_editing", priority |-> 6,
      dependencies |-> << "content_creator_agent" >>, enabled |-> TRUE] >>

\* the environment configurations explored: RUN_MODE, PIPELINE_DELAY,
\* GLOBAL_INTERVAL and AGENT_INTERVAL (int(os.getenv(...)) accepts any integer)
EnvConfigs ==
  [mode : {"run_once"}, pipeline_delay : {0, DefaultPipelineDelay},
   global_interval : {DefaultGlobalInterval}, interval : {DefaultAgentInterval}]
  \cup
  [mode : {"pipeline"}, pipeline_delay : {0, DefaultPipelineDelay},
   global_interval : {-1, DefaultGlobalInterval}, interval : {DefaultAgentInterval}]
  \cup
  [mode : {"run_forever"}, pipeline_delay : {DefaultPipelineDelay},
   global_interval : {DefaultGlobalInterval}, interval : {-1, DefaultAgentInterval}]
  \cup
  [mode : {"batch"}, pipeline_delay : {DefaultPipelineDelay},
   global_interval : {DefaultGlobalInterval}, interval : {DefaultAgentInterval}]

\* the names given to enable_agent / disable_agent / restart_agent
ArgNames == {"hotspot_fetch", "agents.risk_analyzer_agent", "hotspot_agent", "no_such_agent"}

VARIABLES
  agent_configs,   \* self.agent_configs: sequence of descriptors
  env,             \* mode, global_interval, pipeline_delay, agent interval
  agents,          \* self.agents: module |-> [instance, stats]
  threads,         \* self.threads: module |-> thread (index into workers)
  workers,         \* the threads ever started: [instance, name, restart, alive, iters, at]
  running,         \* self.running
  stats,           \* self.stats: [start_time, total_cycles, errors]
  pc,              \* position of the flow that executes run()
  load_ok,         \* value returned by _load_all_agents
  sorted_configs,  \* local of _run_pipeline_once
  idx,             \* position of the for loop of _run_pipeline_once / of the start-up loop
  results,         \* local of _run_pipeline_once
  outcome,         \* how the run_once in flight ended: "ok" | "raise" | "none"
  slept,           \* duration of the last time.sleep of the flow of run(), 0 if none
  now,             \* logical clock read by datetime.now()
  run_once_calls,  \* module |-> number of run_once invocations so far
  cycle_calls,     \* module |-> number of run_once invocations in the current cycle
  summaries,       \* the final summaries emitted by _print_final_summary
  warnings,        \* warnings logged by stop() and by the monitor loop
  call,            \* the last call of the management interface: [op, arg, ret]
  ntoggle,         \* number of calls of enable_agent / disable_agent
  handler,         \* the stop() called by _signal_handler: [pc, idx]
  constructed,     \* the calls of _load_agent in order: [module, loaded]
  attempt          \* cycle attempts: [faults, ended]

vars == << agent_configs, env, agents, threads, workers, running, stats, pc, load_ok,
           sorted_configs, idx, results, outcome, slept, now, run_once_calls,
           cycle_calls, summaries, warnings, call, ntoggle,
                  handler, constructed, attempt >>

(***************************************************************************)
(* Pure helpers.                                                           *)
(***************************************************************************)
EmptyMap == [k \in {} |-> FALSE]

\* d[k] = v of a Python dict
Put(d, k, v) == (k :> v) @@ d

Modules(cfgs) == {cfgs[i].module : i \in 1..Len(cfgs)}

AllModules == Modules(RegisteredConfigs)

\* a filter that keeps the disabled descriptors
IsEnabled_Any(c) == TRUE

\* the filter config["enabled"] of the list comprehension
IsEnabled(c) == c.enabled

\* an insertion that ignores the key
InsertByPriority_Front(s, c) == << c >> \o s

\* insertion of c behind every element whose key is not larger (stable)
RECURSIVE InsertByPriority(_, _)
InsertByPriority(s, c) ==
  IF s = << >> THEN << c >>
  ELSE IF c.priority < Head(s).priority THEN << c >> \o s
       ELSE << Head(s) >> \o InsertByPriority(Tail(s), c)

\* sorted(seq, key=lambda x: x["priority"]): Python's sort is stable
RECURSIVE SortedByPriority(_)
SortedByPriority(s) ==
  IF s = << >> THEN << >>
  ELSE InsertByPriority(SortedByPriority(SubSeq(s, 1, Len(s) - 1)), s[Len(s)])

\* sorted([config for config in self.agent_configs if config["enabled"]], key=priority)
Resolve(cfgs) == SortedByPriority(SelectSeq(cfgs, IsEnabled))

\* a dependency check that lets every stage pass
CheckDependencies_NoCheck(config, ags) == TRUE

\* _check_dependencies: every dep must be a key of self.agents
CheckDependencies(config, ags) ==
  \A i \in 1..Len(config.dependencies) : config.dependencies[i] \in DOMAIN ags

\* the stats record created by _load_all_agents
FreshStats == [runs |-> 0, successes |-> 0, errors |-> 0,
               last_run |-> None, last_result |-> "None"]

\* the modules of the loaded agents in the order of self.agents.items()
LoadedOrder(cfgs, ags) ==
  LET InAgents(c) == c.module \in DOMAIN ags
      sel == SelectSeq(cfgs, InAgents)
  IN [i \in 1..Len(sel) |-> sel[i].module]

\* the main thread is not inside _signal_handler: Python runs a signal handler in
\* the main thread, which resumes where it was when the handler returns
HandlerIdle == handler.pc = "idle"

(***************************************************************************)
(* Initial state: the AgentRunner as constructed by __init__.              *)
(***************************************************************************)
Init ==
  /\ agent_configs = RegisteredConfigs
  /\ env \in EnvConfigs
  /\ agents = EmptyMap
  /\ threads = EmptyMap
  /\ workers = << >>
  /\ running = FALSE
  /\ stats = [start_time |-> None, total_cycles |-> 0, errors |-> << >>]
  /\ pc = "new"
  /\ load_ok = FALSE
  /\ sorted_configs = << >>
  /\ idx = 0
  /\ results = EmptyMap
  /\ outcome = "none"
  /\ slept = 0
  /\ now = 1
  /\ run_once_calls = [m \in AllModules |-> 0]
  /\ cycle_calls = [m \in AllModules |-> 0]
  /\ summaries = << >>
  /\ warnings = {}
  /\ call = [op |-> "none", arg |-> "", ret |-> FALSE]
  /\ ntoggle = 0
  /\ handler = [pc |-> "idle", idx |-> 0]
  /\ constructed = << >>
  /\ attempt = [faults |-> 0, ended |-> "none"]


(***************************************************************************)
(* run(): loading and start-up.                                            *)
(***************************************************************************)
EnabledModules(cfgs) == {cfgs[i].module : i \in {j \in 1..Len(cfgs) : cfgs[j].enabled}}

\* a loop that gives up at the first descriptor that fails to load
AfterFailure_Abort(rest) == << >>

\* the else branch of the loop of _load_all_agents: the failure is logged and the
\* loop goes on with the descriptors that remain
AfterFailure(rest) == rest

\* the calls of _load_agent made by the loop of _load_all_agents over cfgs, in
\* order, each with its result: a disabled descriptor is skipped; _load_agent
\* returns None (loaded FALSE) when the import, the class lookup or the constructor
\* raises, which it does for the modules in failing
RECURSIVE LoadCalls(_, _)
LoadCalls(cfgs, failing) ==
  IF cfgs = << >> THEN << >>
  ELSE LET config == Head(cfgs)
       IN IF ~config.enabled THEN LoadCalls(Tail(cfgs), failing)
          ELSE IF config.module \in failing
               THEN << [module |-> config.module, loaded |-> FALSE] >>
                    \o LoadCalls(AfterFailure(Tail(cfgs)), failing)
               ELSE << [module |-> config.module, loaded |-> TRUE] >>
                    \o LoadCalls(Tail(cfgs), failing)

\* the modules of the calls of _load_agent that returned an agent
LoadedModules(calls) == {calls[i].module : i \in {j \in 1..Len(calls) : calls[j].loaded}}

\* a loader that always reports a complete load
LoadComplete_Always(success_count, total_count) == TRUE

\* return success_count == total_count
LoadComplete(success_count, total_count) == success_count = total_count

\* _load_all_agents: every enabled descriptor is constructed by _load_agent; the
\* modules in failed are those whose construction raises
LoadAllAgents ==
  /\ pc = "new"
  /\ HandlerIdle
  /\ \E failed \in SUBSET EnabledModules(agent_configs) :
       LET calls == LoadCalls(agent_configs, failed)
       IN /\ constructed' = calls
          /\ agents' = [m \in LoadedModules(calls) |-> [instance |-> m, stats |-> FreshStats]]
          /\ load_ok' = LoadComplete(Cardinality(LoadedModules(calls)), Len(calls))
  /\ pc' = "loaded"
  /\ UNCHANGED << agent_configs, env, threads, workers, running, stats, sorted_configs,
                  idx, results, outcome, slept, now, run_once_calls, cycle_calls,
                  summaries, warnings, call, ntoggle, handler, attempt >>

\* a start-up that ignores the result of _load_all_agents
StartAllowed_IgnoresLoad(ok, ags) == DOMAIN ags # {}

\* the two early returns of run()
StartAllowed(ok, ags) == ok /\ DOMAIN ags # {}

\* the dispatch on self.mode
ModeEntry(mode) ==
  CASE mode = "run_once" -> "cycle_begin"
    [] mode = "pipeline" -> "loop_check"
    [] mode = "run_forever" -> "spawn"
    [] OTHER -> "finally"

RunStart ==
  /\ pc = "loaded"
  /\ HandlerIdle
  /\ IF StartAllowed(load_ok, agents)
     THEN /\ running' = TRUE
          /\ stats' = [stats EXCEPT !.start_time = now]
          /\ now' = now + 1
          /\ pc' = ModeEntry(env.mode)
          /\ idx' = 1
     ELSE /\ pc' = "finally"
          /\ UNCHANGED << running, stats, now, idx >>
  /\ UNCHANGED << agent_configs, env, agents, threads, workers, load_ok, sorted_configs,
                  results, outcome, slept, run_once_calls, cycle_calls,
                  summaries, warnings, call, ntoggle,
                  handler, constructed, attempt >>

(***************************************************************************)
(* _run_pipeline_once and _run_agent_once.                                 *)
(***************************************************************************)
PipelineBegin ==
  /\ pc = "cycle_begin"
  /\ HandlerIdle
  /\ sorted_configs' = Resolve(agent_configs)
  /\ results' = EmptyMap
  /\ idx' = 1
  /\ cycle_calls' = [m \in AllModules |-> 0]
  /\ attempt' = [attempt EXCEPT !.ended = "none"]
  /\ pc' = "stage"
  /\ UNCHANGED << agent_configs, env, agents, threads, workers, running, stats, load_ok,
                  outcome, slept, now, run_once_calls, summaries, warnings,
                  call, ntoggle, handler, constructed >>

\* a loop that waits the inter-stage delay after a skipped stage too
SkipDelay_Waits(delay, last) == IF delay > 0 THEN delay ELSE last

\* a stage that is not run is followed by no time.sleep: `continue` after a failed
\* dependency check, and `if success and ...` after _run_agent_once returned False
SkipDelay(delay, last) == last

\* one iteration of the for loop up to the call of agent.run_once()
StageStep ==
  /\ pc = "stage"
  /\ HandlerIdle
  /\ idx <= Len(sorted_configs)
  /\ LET config == sorted_configs[idx]
         agent_key == config.module
     IN IF ~CheckDependencies(config, agents) \/ agent_key \notin DOMAIN agents
        THEN /\ results' = Put(results, agent_key, FALSE)
             /\ slept' = SkipDelay(env.pipeline_delay, slept)
             /\ idx' = idx + 1
             /\ UNCHANGED << pc, run_once_calls, cycle_calls >>
        ELSE /\ run_once_calls' = [run_once_calls EXCEPT ![agent_key] = @ + 1]
             /\ cycle_calls' = [cycle_calls EXCEPT ![agent_key] = @ + 1]
             /\ pc' = "invoke"
             /\ UNCHANGED << results, idx, slept >>
  /\ UNCHANGED << agent_configs, env, agents, threads, workers, running, stats, load_ok,
                  sorted_configs, outcome, now, summaries, warnings,
                  call, ntoggle,
                  handler, constructed, attempt >>

\* stats["runs"] += 1, the first statement of either branch
CountRun(s) == [s EXCEPT !.runs = @ + 1]

\* the remaining statements of the try branch
RecordSuccess(s, t) ==
  [s EXCEPT !.successes = @ + 1, !.last_run = t, !.last_result = "result"]

\* an except branch that does not count the error
RecordError_NotCounted(s, t) ==
  [s EXCEPT !.last_run = t, !.last_result = "error"]

\* the remaining statements on stats of the except branch
RecordError(s, t) ==
  [s EXCEPT !.errors = @ + 1, !.last_run = t, !.last_result = "error"]

\* an except branch that forgets the error log
LogError_Dropped(log, name) == log

\* an except branch that keeps only the last error
LogError_Replaced(log, name) == << [agent |-> name] >>

\* self.stats["errors"].append({...})
LogError(log, name) == Append(log, [agent |-> name])

\* agent.run_once() returns or raises; the first statement after it is executed
RunOnceReturns ==
  /\ pc = "invoke"
  /\ HandlerIdle
  /\ \E o \in {"ok", "raise"} : outcome' = o
  /\ LET agent_key == sorted_configs[idx].module
     IN agents' = [agents EXCEPT ![agent_key].stats = CountRun(@)]
  /\ pc' = "stats"
  /\ UNCHANGED << agent_configs, env, threads, workers, running, stats, load_ok,
                  sorted_configs, idx, results, slept, now, run_once_calls,
                  cycle_calls, summaries, warnings, call, ntoggle,
                  handler, constructed, attempt >>

\* the rest of _run_agent_once and the end of the loop body of _run_pipeline_once,
\* time.sleep(self.pipeline_delay) included
StageFinish ==
  /\ pc = "stats"
  /\ HandlerIdle
  /\ LET config == sorted_configs[idx]
         agent_key == config.module
     IN IF outcome = "ok"
        THEN /\ agents' = [agents EXCEPT ![agent_key].stats = RecordSuccess(@, now)]
             /\ results' = Put(results, agent_key, TRUE)
             /\ stats' = stats
             /\ slept' = IF env.pipeline_delay > 0 THEN env.pipeline_delay ELSE slept
        ELSE /\ agents' = [agents EXCEPT ![agent_key].stats = RecordError(@, now)]
             /\ stats' = [stats EXCEPT !.errors = LogError(@, config.name)]
             /\ results' = Put(results, agent_key, FALSE)
             /\ slept' = slept
  /\ idx' = idx + 1
  /\ pc' = "stage"
  /\ now' = now + 1
  /\ outcome' = "none"
  /\ UNCHANGED << agent_configs, env, threads, workers, running, load_ok,
                  sorted_configs, run_once_calls, cycle_calls, summaries, warnings,
                  call, ntoggle,
                  handler, constructed, attempt >>

\* a single-pass mode that starts another cycle while the flag is set
AfterSinglePass_Repeats(flag) == IF flag THEN "cycle_begin" ELSE "finally"

\* _run_mode_once: after self._print_summary(results) the method returns to run(),
\* whose finally clause follows, whatever self.running is
AfterSinglePass(flag) == "finally"

\* _run_pipeline_once returns to _run_mode_once
CycleEndOnce ==
  /\ pc = "stage"
  /\ HandlerIdle
  /\ idx > Len(sorted_configs)
  /\ env.mode = "run_once"
  /\ pc' = AfterSinglePass(running)
  /\ UNCHANGED << agent_configs, env, agents, threads, workers, running, stats, load_ok,
                  sorted_configs, idx, results, outcome, slept, now, run_once_calls,
                  cycle_calls, summaries, warnings, call, ntoggle,
                  handler, constructed, attempt >>

(***************************************************************************)
(* _run_mode_pipeline.                                                     *)
(***************************************************************************)
\* while self.running
LoopCheck ==
  /\ pc = "loop_check"
  /\ HandlerIdle
  /\ IF running
     THEN /\ stats.total_cycles < MaxCycles
          /\ pc' = "cycle_begin"
     ELSE pc' = "finally"
  /\ UNCHANGED << agent_configs, env, agents, threads, workers, running, stats, load_ok,
                  sorted_configs, idx, results, outcome, slept, now, run_once_calls,
                  cycle_calls, summaries, warnings, call, ntoggle,
                  handler, constructed, attempt >>

\* an except clause that sleeps the configured interval
RetryDelay_Interval(interval) == interval

\* except Exception: time.sleep(60), whatever the configured interval
RetryDelay(interval) == FallbackDelay

\* an except clause that counts the failed attempt
CountAfterError_Counted(n) == n + 1

\* the except clause leaves total_cycles as the try block left it
CountAfterError(n) == n

\* _run_pipeline_once returns to _run_mode_pipeline: the counter is incremented and
\* the loop sleeps; time.sleep raises ValueError for a negative interval, which the
\* except clause of the loop answers with time.sleep(60)
CycleEndPipeline ==
  /\ pc = "stage"
  /\ HandlerIdle
  /\ idx > Len(sorted_configs)
  /\ env.mode = "pipeline"
  /\ IF running /\ env.global_interval < 0
     THEN /\ stats' = [stats EXCEPT !.total_cycles = CountAfterError(@ + 1)]
          /\ slept' = RetryDelay(env.global_interval)
          /\ attempt' = [attempt EXCEPT !.ended = "raised"]
     ELSE /\ stats' = [stats EXCEPT !.total_cycles = @ + 1]
          /\ slept' = IF running THEN env.global_interval ELSE slept
          /\ attempt' = [attempt EXCEPT !.ended = "completed"]
  /\ pc' = "loop_check"
  /\ UNCHANGED << agent_configs, env, agents, threads, workers, running, load_ok,
                  sorted_configs, idx, results, outcome, now, run_once_calls,
                  cycle_calls, summaries, warnings, call, ntoggle,
                  handler, constructed >>

\* a statement of _run_pipeline_once outside _run_agent_once raises (a MemoryError
\* while the descriptors are sorted or while a log line is built, for instance):
\* in timed-repeating mode the except clause of the loop logs it and sleeps 60
\* seconds; in single-pass mode it reaches the except clause of run()
CycleRaises ==
  /\ pc \in {"cycle_begin", "stage"}
  /\ HandlerIdle
  /\ attempt.faults < MaxFaults
  /\ attempt' = [faults |-> attempt.faults + 1, ended |-> "raised"]
  /\ IF env.mode = "pipeline"
     THEN /\ stats' = [stats EXCEPT !.total_cycles = CountAfterError(@)]
          /\ slept' = RetryDelay(env.global_interval)
          /\ pc' = "loop_check"
     ELSE /\ pc' = "finally"
          /\ UNCHANGED << stats, slept >>
  /\ UNCHANGED << agent_configs, env, agents, threads, workers, running, load_ok,
                  sorted_configs, idx, results, outcome, now, run_once_calls,
                  cycle_calls, summaries, warnings, call, ntoggle,
                  handler, constructed >>

(***************************************************************************)
(* _run_mode_forever, _run_concurrent_forever and the worker threads.      *)
(***************************************************************************)
\* threading.Thread(target=agent_worker, name=...); thread.start()
NewWorker(instance, thread_name, restart) ==
  [instance |-> instance, name |-> thread_name, restart |-> restart,
   alive |-> TRUE, iters |-> 0, at |-> "run_once"]

\* the descriptor self.agents[agent_key]["config"]
ConfigOf(cfgs, agent_key) == cfgs[CHOOSE i \in 1..Len(cfgs) : cfgs[i].module = agent_key]

\* one iteration of the for loop of _run_concurrent_forever, time.sleep(1) included;
\* after the last one _run_mode_forever enters its monitor loop
StartWorker ==
  /\ pc = "spawn"
  /\ HandlerIdle
  /\ LET order == LoadedOrder(agent_configs, agents)
     IN IF idx <= Len(order)
        THEN /\ workers' = Append(workers, NewWorker(agents[order[idx]].instance,
                                                      ConfigOf(agent_configs, order[idx]).name,
                                                      FALSE))
             /\ threads' = Put(threads, order[idx], Len(workers) + 1)
             /\ slept' = StaggerDelay
             /\ idx' = idx + 1
             /\ pc' = "spawn"
        ELSE /\ pc' = "monitor"
             /\ UNCHANGED << workers, threads, slept, idx >>
  /\ UNCHANGED << agent_configs, env, agents, running, stats, load_ok, sorted_configs,
                  results, outcome, now, run_once_calls, cycle_calls, summaries,
                  warnings, call, ntoggle,
                  handler, constructed, attempt >>

\* while self.running: time.sleep(10)
MonitorCheck ==
  /\ pc = "monitor"
  /\ HandlerIdle
  /\ IF running
     THEN /\ slept' = PollPeriod
          /\ pc' = "poll"
     ELSE /\ slept' = slept
          /\ pc' = "finally"
  /\ UNCHANGED << agent_configs, env, agents, threads, workers, running, stats, load_ok,
                  sorted_configs, idx, results, outcome, now, run_once_calls,
                  cycle_calls, summaries, warnings, call, ntoggle,
                  handler, constructed, attempt >>

AliveThreads(thr, wrk) == {k \in DOMAIN thr : wrk[thr[k]].alive}

\* a poll that reports nothing
PollWarning_Silent(warn, alive_threads, started) == warn

\* if alive_threads < len(self.threads): self.logger.warning(...)
PollWarning(warn, alive_threads, started) ==
  IF alive_threads < started
  THEN warn \cup {[kind |-> "monitor", agent |-> "all"]}
  ELSE warn

\* the liveness poll after time.sleep(10): a warning and nothing else
MonitorPoll ==
  /\ pc = "poll"
  /\ HandlerIdle
  /\ warnings' = PollWarning(warnings, Cardinality(AliveThreads(threads, workers)),
                             Cardinality(DOMAIN threads))
  /\ pc' = "monitor"
  /\ UNCHANGED << agent_configs, env, agents, threads, workers, running, stats, load_ok,
                  sorted_configs, idx, results, outcome, slept, now, run_once_calls,
                  cycle_calls, summaries, call, ntoggle,
                  handler, constructed, attempt >>

\* the iterations of run_forever executed so far by all threads
RECURSIVE TotalIters(_)
TotalIters(wrk) ==
  IF wrk = << >> THEN 0 ELSE Head(wrk).iters + TotalIters(Tail(wrk))

\* one iteration of BaseAgent.run_forever in thread w: run_once returns or raises
\* (both are only logged), then the finally clause sleeps self.interval;
\* time.sleep raises ValueError for a negative interval, which leaves the loop
\* and ends the thread
WorkerIterate(w) ==
  /\ workers[w].alive
  /\ TotalIters(workers) < MaxIters
  /\ \E o \in {"ok", "raise"} :
       /\ run_once_calls' = [run_once_calls EXCEPT ![workers[w].instance] = @ + 1]
       /\ workers' = [workers EXCEPT ![w].iters = @ + 1,
                                     ![w].alive = (env.interval >= 0)]
  /\ UNCHANGED << agent_configs, env, agents, threads, running, stats, pc, load_ok,
                  sorted_configs, idx, results, outcome, slept, now, cycle_calls,
                  summaries, warnings, call, ntoggle,
                  handler, constructed, attempt >>

\* a count kept up to MaxIters
Counted(n) == IF n < MaxIters THEN n + 1 ELSE n

\* an except clause that leaves the loop
ExceptBranch_Exits(alive) == FALSE

\* except Exception: the error is logged, _handle_error does nothing, and the
\* thread goes on to the finally clause
ExceptBranch(alive) == alive

\* the run_once of thread w returns or raises: run_forever logs the result
\* ("returned") or, in its except clause, the exception ("raised"), and is then at
\* its finally clause
WorkerRunOnce(w) ==
  /\ w <= Len(workers)
  /\ workers[w].alive
  /\ workers[w].at = "run_once"
  /\ \/ workers' = [workers EXCEPT ![w].at = "returned", ![w].iters = Counted(@)]
     \/ workers' = [workers EXCEPT ![w].at = "raised", ![w].iters = Counted(@),
                                   ![w].alive = ExceptBranch(@)]
  /\ run_once_calls' = [run_once_calls EXCEPT ![workers[w].instance] = Counted(@)]
  /\ UNCHANGED << agent_configs, env, agents, threads, running, stats, pc, load_ok,
                  sorted_configs, idx, results, outcome, slept, now, cycle_calls,
                  summaries, warnings, call, ntoggle, handler, constructed, attempt >>

\* finally: time.sleep(self.interval), then the next iteration of while True;
\* time.sleep raises ValueError for a negative interval, which ends the thread
WorkerSleep(w) ==
  /\ w <= Len(workers)
  /\ workers[w].alive
  /\ workers[w].at \in {"returned", "raised"}
  /\ workers' = IF env.interval >= 0
                THEN [workers EXCEPT ![w].at = "run_once"]
                ELSE [workers EXCEPT ![w].alive = FALSE]
  /\ UNCHANGED << agent_configs, env, agents, threads, running, stats, pc, load_ok,
                  sorted_configs, idx, results, outcome, slept, now, run_once_calls,
                  cycle_calls, summaries, warnings, call, ntoggle,
                  handler, constructed, attempt >>

(***************************************************************************)
(* stop(), the signal handler and the finally clause of run().             *)
(***************************************************************************)
\* what _print_final_summary prints
Summary(st, ags) ==
  [total_cycles |-> st.total_cycles, errors |-> Len(st.errors),
   agents |-> [k \in DOMAIN ags |-> ags[k].stats]]

\* stop(): each live thread is joined for at most 5 seconds, a thread that is
\* still alive is warned about, then the final summary is printed
StopBody ==
  IF ~running
  THEN UNCHANGED << running, warnings, summaries >>
  ELSE /\ running' = FALSE
       /\ warnings' = warnings \cup
            {[kind |-> "stop", agent |-> k] : k \in AliveThreads(threads, workers)}
       /\ summaries' = IF stats.start_time = None
                       THEN summaries
                       ELSE Append(summaries, Summary(stats, agents))

\* _signal_handler as one step: SIGINT or SIGTERM is delivered to the main thread,
\* which runs the whole of stop() before it resumes
Signal ==
  /\ pc # "done"
  /\ HandlerIdle
  /\ StopBody
  /\ UNCHANGED << agent_configs, env, agents, threads, workers, stats, pc, load_ok,
                  sorted_configs, idx, results, outcome, slept, now, run_once_calls,
                  cycle_calls, call, ntoggle, handler, constructed, attempt >>

\* the keys of self.threads in the order of self.threads.items()
ThreadOrder(cfgs, thr) ==
  LET InThreads(c) == c.module \in DOMAIN thr
      sel == SelectSeq(cfgs, InThreads)
  IN [i \in 1..Len(sel) |-> sel[i].module]

\* a join without timeout returns only when the thread has ended
JoinReturns_NoTimeout(w) == ~w.alive

\* thread.join(timeout=5) returns when the thread has ended or after 5 seconds
JoinReturns(w) == TRUE

\* if thread.is_alive() after the join: logger.warning
JoinWarning(warn, agent_key, w) ==
  IF w.alive THEN warn \cup {[kind |-> "stop", agent |-> agent_key]} ELSE warn

\* _print_final_summary: nothing is printed when start_time is None
PrintFinalSummary(sums, st, ags) ==
  IF st.start_time = None THEN sums ELSE Append(sums, Summary(st, ags))

\* finally: self.stop(), entered by the flow of run(): the test of self.running;
\* stop() returns at once, and run() with it, when the flag is False, and logs
\* that it is stopping the agents otherwise
RunFinally ==
  /\ pc = "finally"
  /\ HandlerIdle
  /\ pc' = IF running THEN "stop_set" ELSE "done"
  /\ UNCHANGED << agent_configs, env, agents, threads, workers, running, stats, load_ok,
                  sorted_configs, idx, results, outcome, slept, now, run_once_calls,
                  cycle_calls, summaries, warnings, call, ntoggle,
                  handler, constructed, attempt >>

\* self.running = False
StopSet ==
  /\ pc = "stop_set"
  /\ HandlerIdle
  /\ running' = FALSE
  /\ idx' = 1
  /\ pc' = "stop_join"
  /\ UNCHANGED << agent_configs, env, agents, threads, workers, stats, load_ok,
                  sorted_configs, results, outcome, slept, now, run_once_calls,
                  cycle_calls, summaries, warnings, call, ntoggle,
                  handler, constructed, attempt >>

\* one iteration of the loop over self.threads.items(); after the last one the
\* final summary is printed and stop() returns to run(), which returns
StopJoin ==
  /\ pc = "stop_join"
  /\ HandlerIdle
  /\ LET order == ThreadOrder(agent_configs, threads)
     IN IF idx <= Len(order)
        THEN /\ JoinReturns(workers[threads[order[idx]]])
             /\ warnings' = JoinWarning(warnings, order[idx], workers[threads[order[idx]]])
             /\ idx' = idx + 1
             /\ UNCHANGED << pc, summaries >>
        ELSE /\ summaries' = PrintFinalSummary(summaries, stats, agents)
             /\ pc' = "done"
             /\ UNCHANGED << warnings, idx >>
  /\ UNCHANGED << agent_configs, env, agents, threads, workers, running, stats, load_ok,
                  sorted_configs, results, outcome, slept, now, run_once_calls,
                  cycle_calls, call, ntoggle, handler, constructed, attempt >>

\* _signal_handler step by step: SIGINT or SIGTERM is delivered at any time after
\* __init__ has registered the handler and before run() has returned; the main
\* thread enters the handler, which logs the signal and calls stop()
SignalBegin ==
  /\ pc # "done"
  /\ HandlerIdle
  /\ handler' = [pc |-> "stop_test", idx |-> 0]
  /\ UNCHANGED << agent_configs, env, agents, threads, workers, running, stats, pc,
                  load_ok, sorted_configs, idx, results, outcome, slept, now,
                  run_once_calls, cycle_calls, summaries, warnings, call, ntoggle,
                  constructed, attempt >>

\* if not self.running: return, in the handler: the handler returns and the main
\* thread resumes where it was
HandlerTest ==
  /\ handler.pc = "stop_test"
  /\ handler' = IF running THEN [pc |-> "stop_set", idx |-> 0]
                           ELSE [pc |-> "idle", idx |-> 0]
  /\ UNCHANGED << agent_configs, env, agents, threads, workers, running, stats, pc,
                  load_ok, sorted_configs, idx, results, outcome, slept, now,
                  run_once_calls, cycle_calls, summaries, warnings, call, ntoggle,
                  constructed, attempt >>

\* self.running = False, in the handler
HandlerSet ==
  /\ handler.pc = "stop_set"
  /\ running' = FALSE
  /\ handler' = [pc |-> "stop_join", idx |-> 1]
  /\ UNCHANGED << agent_configs, env, agents, threads, workers, stats, pc, load_ok,
                  sorted_configs, idx, results, outcome, slept, now, run_once_calls,
                  cycle_calls, summaries, warnings, call, ntoggle,
                  constructed, attempt >>

\* one iteration of the loop over self.threads.items(), in the handler; after the
\* last one the final summary is printed and the handler returns
HandlerJoin ==
  /\ handler.pc = "stop_join"
  /\ LET order == ThreadOrder(agent_configs, threads)
     IN IF handler.idx <= Len(order)
        THEN /\ JoinReturns(workers[threads[order[handler.idx]]])
             /\ warnings' = JoinWarning(warnings, order[handler.idx],
                                        workers[threads[order[handler.idx]]])
             /\ handler' = [handler EXCEPT !.idx = @ + 1]
             /\ UNCHANGED summaries
        ELSE /\ summaries' = PrintFinalSummary(summaries, stats, agents)
             /\ handler' = [pc |-> "idle", idx |-> 0]
             /\ UNCHANGED warnings
  /\ UNCHANGED << agent_configs, env, agents, threads, workers, running, stats, pc,
                  load_ok, sorted_configs, idx, results, outcome, slept, now,
                  run_once_calls, cycle_calls, call, ntoggle, constructed, attempt >>

(***************************************************************************)
(* The management interface: enable_agent, disable_agent, restart_agent.   *)
(***************************************************************************)
\* the first descriptor whose name or module is agent_name, 0 if there is none
RECURSIVE FindConfig(_, _, _)
FindConfig(cfgs, agent_name, i) ==
  IF i > Len(cfgs) THEN 0
  ELSE IF cfgs[i].name = agent_name \/ cfgs[i].module = agent_name THEN i
       ELSE FindConfig(cfgs, agent_name, i + 1)

\* a loop that flips the flag instead of setting it
SetEnabled_Flipped(cfgs, agent_name, flag) ==
  LET i == FindConfig(cfgs, agent_name, 1)
  IN IF i = 0 THEN cfgs ELSE [cfgs EXCEPT ![i].enabled = ~@]

\* the loop of enable_agent (flag TRUE) and of disable_agent (flag FALSE)
SetEnabled(cfgs, agent_name, flag) ==
  LET i == FindConfig(cfgs, agent_name, 1)
  IN IF i = 0 THEN cfgs ELSE [cfgs EXCEPT ![i].enabled = flag]

EnableAgent(agent_name) ==
  /\ ntoggle < MaxToggles
  /\ ntoggle' = ntoggle + 1
  /\ agent_configs' = SetEnabled(agent_configs, agent_name, TRUE)
  /\ call' = [op |-> "enable_agent", arg |-> agent_name,
              ret |-> (FindConfig(agent_configs, agent_name, 1) # 0)]
  /\ UNCHANGED << env, agents, threads, workers, running, stats, pc, load_ok,
                  sorted_configs, idx, results, outcome, slept, now, run_once_calls,
                  cycle_calls, summaries, warnings,
                  handler, constructed, attempt >>

DisableAgent(agent_name) ==
  /\ ntoggle < MaxToggles
  /\ ntoggle' = ntoggle + 1
  /\ agent_configs' = SetEnabled(agent_configs, agent_name, FALSE)
  /\ call' = [op |-> "disable_agent", arg |-> agent_name,
              ret |-> (FindConfig(agent_configs, agent_name, 1) # 0)]
  /\ UNCHANGED << env, agents, threads, workers, running, stats, pc, load_ok,
                  sorted_configs, idx, results, outcome, slept, now, run_once_calls,
                  cycle_calls, summaries, warnings,
                  handler, constructed, attempt >>

\* the search loop of restart_agent over self.agents.items(): the key of the first
\* loaded agent whose descriptor has the name or the module agent_name, "" if none
RECURSIVE FindAgent(_, _, _, _)
FindAgent(cfgs, order, agent_name, i) ==
  IF i > Len(order) THEN ""
  ELSE LET config == ConfigOf(cfgs, order[i])
       IN IF config.name = agent_name \/ config.module = agent_name THEN order[i]
          ELSE FindAgent(cfgs, order, agent_name, i + 1)

\* the threads started by restart_agent so far
Restarts(wrk) == Cardinality({w \in 1..Len(wrk) : wrk[w].restart})

\* a restart_agent without the guard on the mode
RestartPermitted_AnyMode(mode) == TRUE

\* the first guard of restart_agent
RestartPermitted(mode) == mode = "run_forever"

\* a restart that forgets to store the new thread
ReplaceThread_Forgotten(thr, agent_key, t) == thr

\* self.threads[target_key] = thread
ReplaceThread(thr, agent_key, t) == Put(thr, agent_key, t)

\* restart_agent: the old thread, if alive, is joined for at most 10 seconds,
\* then a new thread is started on the same agent instance and takes its place
\* in self.threads
RestartAgent(agent_name) ==
  /\ Restarts(workers) < MaxRestarts
  /\ LET target_key == FindAgent(agent_configs, LoadedOrder(agent_configs, agents),
                                 agent_name, 1)
     IN IF ~RestartPermitted(env.mode) \/ target_key = ""
        THEN /\ call' = [op |-> "restart_agent", arg |-> agent_name, ret |-> FALSE]
             /\ UNCHANGED << workers, threads >>
        ELSE /\ workers' = Append(workers,
                          NewWorker(agents[target_key].instance,
                                    ConfigOf(agent_configs, target_key).name \o "-restart",
                                    TRUE))
             /\ threads' = ReplaceThread(threads, target_key, Len(workers) + 1)
             /\ call' = [op |-> "restart_agent", arg |-> agent_name, ret |-> TRUE]
  /\ UNCHANGED << agent_configs, env, agents, running, stats, pc, load_ok,
                  sorted_configs, idx, results, outcome, slept, now, run_once_calls,
                  cycle_calls, summaries, warnings, ntoggle,
                  handler, constructed, attempt >>

(***************************************************************************)
(* The specification of the orchestrator.                                  *)
(***************************************************************************)
Next ==
  \/ LoadAllAgents
  \/ RunStart
  \/ PipelineBegin
  \/ StageStep
  \/ RunOnceReturns
  \/ StageFinish
  \/ CycleEndOnce
  \/ LoopCheck
  \/ CycleEndPipeline
  \/ CycleRaises
  \/ StartWorker
  \/ MonitorCheck
  \/ MonitorPoll
  \/ \E w \in 1..Len(workers) : WorkerIterate(w)
  \/ \E w \in 1..MaxStages : WorkerRunOnce(w)
  \/ \E w \in 1..MaxStages : WorkerSleep(w)
  \/ Signal
  \/ SignalBegin
  \/ HandlerTest
  \/ HandlerSet
  \/ HandlerJoin
  \/ RunFinally
  \/ StopSet
  \/ StopJoin
  \/ \E n \in ArgNames : EnableAgent(n)
  \/ \E n \in ArgNames : DisableAgent(n)
  \/ \E n \in ArgNames : RestartAgent(n)

Spec == Init /\ [][Next]_vars

\* the orchestrator with its registered descriptors left as they are: every mode,
\* the worker threads, signals and restart_agent
NextRun ==
  \/ LoadAllAgents
  \/ RunStart
  \/ PipelineBegin
  \/ StageStep
  \/ RunOnceReturns
  \/ StageFinish
  \/ CycleEndOnce
  \/ LoopCheck
  \/ CycleEndPipeline
  \/ StartWorker
  \/ MonitorCheck
  \/ MonitorPoll
  \/ \E w \in 1..Len(workers) : WorkerIterate(w)
  \/ Signal
  \/ RunFinally
  \/ StopSet
  \/ StopJoin
  \/ \E n \in ArgNames : RestartAgent(n)

SpecRun == Init /\ [][NextRun]_vars

\* the single-pass and the timed-repeating mode with enable_agent and disable_agent
InitSeq == Init /\ env.mode \in {"run_once", "pipeline"}

NextSeq ==
  \/ LoadAllAgents
  \/ RunStart
  \/ PipelineBegin
  \/ StageStep
  \/ RunOnceReturns
  \/ StageFinish
  \/ CycleEndOnce
  \/ LoopCheck
  \/ CycleEndPipeline
  \/ Signal
  \/ RunFinally
  \/ StopSet
  \/ StopJoin
  \/ \E n \in ArgNames : EnableAgent(n)
  \/ \E n \in ArgNames : DisableAgent(n)

SpecSeq == InitSeq /\ [][NextSeq]_vars

\* the single-pass and the timed-repeating mode with exceptions raised by
\* _run_pipeline_once itself
NextCycle ==
  \/ LoadAllAgents
  \/ RunStart
  \/ PipelineBegin
  \/ StageStep
  \/ RunOnceReturns
  \/ StageFinish
  \/ CycleEndOnce
  \/ LoopCheck
  \/ CycleEndPipeline
  \/ CycleRaises
  \/ Signal
  \/ RunFinally
  \/ StopSet
  \/ StopJoin

SpecCycle == InitSeq /\ [][NextCycle]_vars

\* the registered descriptors after disable_agent was called for every stage
\* behind the first k
FirstStagesEnabled(k) ==
  [i \in 1..Len(RegisteredConfigs) |-> [RegisteredConfigs[i] EXCEPT !.enabled = (i <= k)]]

\* concurrent mode with at most MaxStages stages: the threads step by step, the
\* signal handler step by step
InitForever ==
  /\ \E k \in 1..MaxStages : agent_configs = FirstStagesEnabled(k)
  /\ env \in {e \in EnvConfigs : e.mode = "run_forever"}
  /\ agents = EmptyMap
  /\ threads = EmptyMap
  /\ workers = << >>
  /\ running = FALSE
  /\ stats = [start_time |-> None, total_cycles |-> 0, errors |-> << >>]
  /\ pc = "new"
  /\ load_ok = FALSE
  /\ sorted_configs = << >>
  /\ idx = 0
  /\ results = EmptyMap
  /\ outcome = "none"
  /\ slept = 0
  /\ now = 1
  /\ run_once_calls = [m \in AllModules |-> 0]
  /\ cycle_calls = [m \in AllModules |-> 0]
  /\ summaries = << >>
  /\ warnings = {}
  /\ call = [op |-> "none", arg |-> "", ret |-> FALSE]
  /\ ntoggle = 0
  /\ handler = [pc |-> "idle", idx |-> 0]
  /\ constructed = << >>
  /\ attempt = [faults |-> 0, ended |-> "none"]

\* the steps of the main thread outside the signal handler; in this mode run()
\* reaches its finally clause only with self.running False, so that the stop() it
\* calls there returns at once
MainForever ==
  \/ LoadAllAgents
  \/ RunStart
  \/ StartWorker
  \/ MonitorCheck
  \/ MonitorPoll
  \/ RunFinally

\* the steps of the main thread inside the signal handler
HandlerSteps ==
  \/ HandlerTest
  \/ HandlerSet
  \/ HandlerJoin

NextForever ==
  \/ MainForever
  \/ SignalBegin
  \/ HandlerSteps
  \/ \E w \in 1..MaxStages : WorkerRunOnce(w)
  \/ \E w \in 1..MaxStages : WorkerSleep(w)

\* the main thread keeps running, in the handler or outside it (signals do not
\* come so fast that it never executes a statement between two handlers), and so
\* does every thread (a run_once in flight returns or raises in the end); a signal
\* may or may not come
SpecForever ==
  /\ InitForever
  /\ [][NextForever]_vars
  /\ SF_vars(MainForever)
  /\ WF_vars(HandlerSteps)
  /\ \A w \in 1..MaxStages : WF_vars(WorkerRunOnce(w) \/ WorkerSleep(w))

(***************************************************************************)
(* The priority order of an arbitrary descriptor set: _run_pipeline_once   *)
(* is entered with any sequence of at most MaxDesc descriptors.            *)
(***************************************************************************)
Descriptor(i, priority, enabled) ==
  [module |-> "agents.stage" \o ToString(i), name |-> "stage" \o ToString(i),
   priority |-> priority, dependencies |-> << >>, enabled |-> enabled]

DescriptorSets ==
  UNION {[1..n -> (1..MaxPrio) \X BOOLEAN] : n \in 0..MaxDesc}

InitResolve ==
  /\ \E d \in DescriptorSets :
       agent_configs = [i \in DOMAIN d |-> Descriptor(i, d[i][1], d[i][2])]
  /\ env \in {e \in EnvConfigs : e.mode = "run_once"}
  /\ agents = EmptyMap
  /\ threads = EmptyMap
  /\ workers = << >>
  /\ running = TRUE
  /\ stats = [start_time |-> 1, total_cycles |-> 0, errors |-> << >>]
  /\ pc = "cycle_begin"
  /\ load_ok = TRUE
  /\ sorted_configs = << >>
  /\ idx = 1
  /\ results = EmptyMap
  /\ outcome = "none"
  /\ slept = 0
  /\ now = 2
  /\ run_once_calls = [m \in AllModules |-> 0]
  /\ cycle_calls = [m \in AllModules |-> 0]
  /\ summaries = << >>
  /\ warnings = {}
  /\ call = [op |-> "none", arg |-> "", ret |-> FALSE]
  /\ ntoggle = 0
  /\ handler = [pc |-> "idle", idx |-> 0]
  /\ constructed = << >>
  /\ attempt = [faults |-> 0, ended |-> "none"]

NextResolve == PipelineBegin

SpecResolve == InitResolve /\ [][NextResolve]_vars

(***************************************************************************)
(* Properties.                                                             *)
(***************************************************************************)
\* the module (key of self.agents) of the stage a dependency identifier names:
\* "risk_analyzer_agent" names the stage of module "agents.risk_analyzer_agent"
DepStage(dep) == "agents." \o dep

\* config depends on a stage that is not loaded
HasUnloadedDependency(config) ==
  \E j \in 1..Len(config.dependencies) : DepStage(config.dependencies[j]) \notin DOMAIN agents

\* the for loop of _run_pipeline_once has gone through all of sorted_configs
CycleDone == pc = "stage" /\ idx > Len(sorted_configs)

InCycle == pc \in {"stage", "invoke", "stats"}

\* C1: a stage of the cycle that depends on a stage that is not loaded is never
\* invoked in that cycle, and once the loop has passed it its result is False
C1_UnmetDependencySkipped ==
  \A i \in 1..Len(sorted_configs) :
    LET B == sorted_configs[i]
    IN HasUnloadedDependency(B) =>
         /\ cycle_calls[B.module] = 0
         /\ i < idx => (B.module \in DOMAIN results /\ results[B.module] = FALSE)

\* a finished cycle in which stage 1 ran and a loaded stage was skipped because
\* the stage it depends on was not loaded
C1_Witness ==
  /\ CycleDone
  /\ cycle_calls["agents.hotspot_agent"] = 1
  /\ \E i \in 1..Len(sorted_configs) :
       LET B == sorted_configs[i]
       IN /\ B.module \in DOMAIN agents
          /\ HasUnloadedDependency(B)
          /\ results[B.module] = FALSE

\* C2: when all six registered stages are loaded and every run_once of the cycle
\* succeeds, the cycle invokes each of the six exactly once and reports True for
\* all six
C2_AllSixRunOnce ==
  ( /\ CycleDone
    /\ DOMAIN agents = AllModules
    /\ Modules(sorted_configs) = AllModules
    /\ \A m \in AllModules : cycle_calls[m] > 0 => results[m] = TRUE )
  => \A m \in AllModules : cycle_calls[m] = 1 /\ results[m] = TRUE

\* C3: _check_dependencies is true exactly when every stage the descriptor names
\* as a dependency is loaded
C3_SatisfiedIffLoaded ==
  \A i \in 1..Len(agent_configs) :
    CheckDependencies(agent_configs[i], agents) <=> ~HasUnloadedDependency(agent_configs[i])

\* C4: a run_once that raises counts as one run and one error of its stage, adds
\* one entry naming the stage to the error log, gives the result False, and the
\* loop goes on with the next stage; the loop is left only after the last stage
C4_RaiseRecordedCycleContinues ==
  [][ /\ (pc = "invoke" /\ pc' = "stats" /\ outcome' = "raise") =>
           LET k == sorted_configs[idx].module
           IN agents'[k].stats.runs = agents[k].stats.runs + 1
      /\ (pc = "stats" /\ pc' # "stats" /\ outcome = "raise") =>
           LET c == sorted_configs[idx]
               k == c.module
           IN /\ agents'[k].stats.errors = agents[k].stats.errors + 1
              /\ agents'[k].stats.runs = agents[k].stats.runs
              /\ agents'[k].stats.successes = agents[k].stats.successes
              /\ Len(stats'.errors) = Len(stats.errors) + 1
              /\ stats'.errors[Len(stats'.errors)].agent = c.name
              /\ SubSeq(stats'.errors, 1, Len(stats.errors)) = stats.errors
              /\ k \in DOMAIN results' /\ results'[k] = FALSE
              /\ pc' = "stage" /\ idx' = idx + 1 /\ sorted_configs' = sorted_configs
              /\ running' = running
      /\ (InCycle /\ ~InCycle') =>
           (idx > Len(sorted_configs) /\ DOMAIN results = Modules(sorted_configs))
    ]_vars

\* a finished cycle whose first stage raised and whose later stages were attempted
C4_Witness ==
  /\ CycleDone
  /\ Len(sorted_configs) >= 2
  /\ sorted_configs[1].module = "agents.hotspot_agent"
  /\ cycle_calls["agents.hotspot_agent"] = 1
  /\ results["agents.hotspot_agent"] = FALSE
  /\ agents["agents.hotspot_agent"].stats.errors >= 1
  /\ Len(stats.errors) >= 1
  /\ DOMAIN results = Modules(sorted_configs)


\* the position of a descriptor in self.agent_configs
RegIndex(c) == CHOOSE i \in 1..Len(agent_configs) : agent_configs[i].module = c.module

\* sorted_configs holds exactly the enabled descriptors, each once
ExactlyTheEnabled ==
  /\ \A p \in 1..Len(sorted_configs) :
       \E i \in 1..Len(agent_configs) :
         agent_configs[i].enabled /\ sorted_configs[p] = agent_configs[i]
  /\ \A i \in 1..Len(agent_configs) :
       agent_configs[i].enabled =>
         Cardinality({p \in 1..Len(sorted_configs) : sorted_configs[p] = agent_configs[i]}) = 1

\* C5 as stated: for any descriptor set the sequence a cycle iterates over is
\* strictly ascending in priority and holds exactly the enabled descriptors
C5_StrictlyAscending ==
  pc = "stage" =>
    /\ \A p, q \in 1..Len(sorted_configs) :
         p < q => sorted_configs[p].priority < sorted_configs[q].priority
    /\ ExactlyTheEnabled

\* C5 amended: the sequence is ascending in priority, descriptors of equal
\* priority keep their registration order, and it holds exactly the enabled
\* descriptors, each once
C5_AscendingStable ==
  pc = "stage" =>
    /\ \A p, q \in 1..Len(sorted_configs) :
         p < q =>
           \/ sorted_configs[p].priority < sorted_configs[q].priority
           \/ /\ sorted_configs[p].priority = sorted_configs[q].priority
              /\ RegIndex(sorted_configs[p]) < RegIndex(sorted_configs[q])
    /\ ExactlyTheEnabled

\* a descriptor set with two enabled descriptors of equal priority, a disabled
\* descriptor, and an enabled descriptor registered before one of lower priority
C5_Witness ==
  /\ pc = "stage"
  /\ \E p, q \in 1..Len(sorted_configs) :
       p < q /\ sorted_configs[p].priority = sorted_configs[q].priority
  /\ \E i \in 1..Len(agent_configs) : ~agent_configs[i].enabled
  /\ \E i, j \in 1..Len(agent_configs) :
       /\ i < j
       /\ agent_configs[i].enabled /\ agent_configs[j].enabled
       /\ agent_configs[i].priority > agent_configs[j].priority

\* the stage whose stats _run_agent_once is in the middle of updating
MidUpdate(k) == pc = "stats" /\ sorted_configs[idx].module = k

\* C6: runs never decreases, and successes + errors = runs whenever the stage is
\* not in the middle of the update that follows its run_once
C6_StatsConsistent ==
  /\ [](\A k \in DOMAIN agents :
          MidUpdate(k) \/
          agents[k].stats.successes + agents[k].stats.errors = agents[k].stats.runs)
  /\ [][\A k \in DOMAIN agents :
          k \in DOMAIN agents' /\ agents'[k].stats.runs >= agents[k].stats.runs]_vars

\* a stage that has run twice, once with success and once with an error
C6_Witness ==
  \E k \in DOMAIN agents :
    /\ ~MidUpdate(k)
    /\ agents[k].stats.runs = 2
    /\ agents[k].stats.successes = 1
    /\ agents[k].stats.errors = 1

\* the run_once invocations made by the threads of stage m
RECURSIVE ThreadCalls(_, _)
ThreadCalls(wrk, m) ==
  IF wrk = << >> THEN 0
  ELSE (IF Head(wrk).instance = m THEN Head(wrk).iters ELSE 0) + ThreadCalls(Tail(wrk), m)

\* C7: when _load_all_agents has reported a failure, run() starts no mode: running
\* stays False, no cycle runs or is counted, run() starts no thread, and no
\* run_once is invoked except by threads that restart_agent started
C7_NoStartAfterFailedLoad ==
  (pc # "new" /\ ~load_ok) =>
    /\ ~running
    /\ pc \in {"loaded", "finally", "done"}
    /\ stats.start_time = None
    /\ stats.total_cycles = 0
    /\ \A m \in AllModules : cycle_calls[m] = 0
    /\ \A w \in 1..Len(workers) : workers[w].restart
    /\ \A m \in AllModules : run_once_calls[m] = ThreadCalls(workers, m)

\* run() has returned after a load in which some descriptors loaded and some did not
C7_Witness ==
  /\ pc = "done"
  /\ ~load_ok
  /\ DOMAIN agents # {}
  /\ DOMAIN agents # AllModules

\* a step that is a call of restart_agent
RestartStep ==
  /\ call'.op = "restart_agent"
  /\ \/ call' # call
     \/ Len(workers') > Len(workers) /\ workers'[Len(workers')].restart

\* agent_name is the display name or the identifier of a loaded stage
NamesLoadedStage(agent_name) ==
  \E k \in DOMAIN agents : k = agent_name \/ ConfigOf(agent_configs, k).name = agent_name

\* C8: restart_agent returns False and changes neither the threads nor the loaded
\* agents nor any stats when the mode is not run_forever or the name is that of
\* no loaded stage
C8_RestartRefused ==
  [][ (RestartStep /\ (env.mode # "run_forever" \/ ~NamesLoadedStage(call'.arg))) =>
        /\ call'.ret = FALSE
        /\ UNCHANGED << threads, workers, agents, stats >>
    ]_vars

\* restart_agent was refused for a loaded stage that has run, in pipeline mode
C8_Witness ==
  /\ env.mode = "pipeline"
  /\ call = [op |-> "restart_agent", arg |-> "hotspot_fetch", ret |-> FALSE]
  /\ "agents.hotspot_agent" \in DOMAIN agents
  /\ agents["agents.hotspot_agent"].stats.runs >= 1

\* C9: a successful restart_agent starts a new thread on the instance of the named
\* stage and stores it as that stage's thread; the stats of every stage, the other
\* entries of self.threads and every thread started before stay as they are
C9_RestartReplacesWorker ==
  [][ (RestartStep /\ call'.ret) =>
        \E k \in DOMAIN agents :
          /\ k = call'.arg \/ ConfigOf(agent_configs, k).name = call'.arg
          /\ env.mode = "run_forever"
          /\ Len(workers') = Len(workers) + 1
          /\ SubSeq(workers', 1, Len(workers)) = workers
          /\ workers'[Len(workers')].instance = agents[k].instance
          /\ workers'[Len(workers')].alive
          /\ workers'[Len(workers')].iters = 0
          /\ DOMAIN threads' = DOMAIN threads \cup {k}
          /\ threads'[k] = Len(workers')
          /\ \A j \in DOMAIN threads \ {k} : threads'[j] = threads[j]
          /\ agents' = agents
          /\ stats' = stats
    ]_vars

\* stage 1 was restarted after all six threads had been started, its old thread
\* still alive
C9_Witness ==
  /\ call = [op |-> "restart_agent", arg |-> "hotspot_fetch", ret |-> TRUE]
  /\ Len(workers) = 7
  /\ threads["agents.hotspot_agent"] = 7
  /\ workers[1].alive
  /\ workers[7].instance = "agents.hotspot_agent"

\* the descriptors whose display name or module is agent_name
Named(agent_name) ==
  {i \in 1..Len(agent_configs) :
     agent_configs[i].name = agent_name \/ agent_configs[i].module = agent_name}

\* C10: enable_agent / disable_agent return False and change no descriptor for an
\* unknown name; for a known name they return True and set the enabled flag of
\* that descriptor only; nothing else changes, and repeating the call changes
\* nothing
C10_EnableDisable ==
  [][ (ntoggle' = ntoggle + 1) =>
        LET n == call'.arg
            flag == (call'.op = "enable_agent")
        IN /\ call'.op \in {"enable_agent", "disable_agent"}
           /\ call'.ret = (Named(n) # {})
           /\ Len(agent_configs') = Len(agent_configs)
           /\ \A i \in 1..Len(agent_configs) :
                agent_configs'[i] = IF i \in Named(n)
                                    THEN [agent_configs[i] EXCEPT !.enabled = flag]
                                    ELSE agent_configs[i]
           /\ (call.op = call'.op /\ call.arg = n) => agent_configs' = agent_configs
           /\ UNCHANGED << env, agents, threads, workers, running, stats, pc, load_ok,
                           sorted_configs, idx, results, outcome, slept, now,
                           run_once_calls, cycle_calls, summaries, warnings,
                  handler, constructed, attempt >>
    ]_vars

\* two calls were made, the last of them disable_agent for stage 1, during a cycle
C10_Witness ==
  /\ ntoggle = 2
  /\ call = [op |-> "disable_agent", arg |-> "hotspot_fetch", ret |-> TRUE]
  /\ ~agent_configs[1].enabled
  /\ agent_configs[2].enabled
  /\ InCycle

\* C11: over a whole run, whatever the number of calls of stop() (the signal
\* handler and the finally clause of run()), the final summary is printed at most
\* once
C11_SummaryAtMostOnce == Len(summaries) <= 1

\* the modules of the enabled descriptors in registration order
EnabledInOrder(cfgs) ==
  LET sel == SelectSeq(cfgs, IsEnabled) IN [i \in 1..Len(sel) |-> sel[i].module]

\* C20: _load_all_agents calls _load_agent for every enabled descriptor, once and in
\* registration order, and for no disabled one, whichever of them fail; it stores
\* exactly those whose construction succeeded, each with fresh stats, and returns
\* True exactly when every enabled descriptor was loaded
C20_LoadAllAttemptsEveryEnabled ==
  [][ (pc = "new" /\ pc' = "loaded") =>
        /\ [i \in 1..Len(constructed') |-> constructed'[i].module] = EnabledInOrder(agent_configs)
        /\ DOMAIN agents' = {constructed'[i].module :
                               i \in {j \in 1..Len(constructed') : constructed'[j].loaded}}
        /\ \A m \in DOMAIN agents' : agents'[m] = [instance |-> m, stats |-> FreshStats]
        /\ load_ok' = (DOMAIN agents' = EnabledModules(agent_configs))
        /\ agent_configs' = agent_configs
    ]_vars

\* a load in which the first stage failed, a later stage was loaded after that
\* failure, and a disabled stage was not constructed
C20_Witness ==
  /\ pc = "loaded"
  /\ Len(constructed) >= 2
  /\ ~constructed[1].loaded
  /\ constructed[Len(constructed)].loaded
  /\ constructed[Len(constructed)].module \in DOMAIN agents
  /\ ~load_ok
  /\ \E i \in 1..Len(agent_configs) :
       /\ ~agent_configs[i].enabled
       /\ \A j \in 1..Len(constructed) : constructed[j].module # agent_configs[i].module

\* the construction of stage 2 failed and that of the five other stages succeeded
Stage2LoadFailed ==
  /\ Len(constructed) = Len(RegisteredConfigs)
  /\ \A i \in 1..Len(constructed) :
       constructed[i].loaded = (constructed[i].module # "agents.risk_analyzer_agent")

\* C14 as stated: when stage 2 fails to load, the run reports stage 1 succeeded,
\* stages 2 to 6 failed or skipped, counts the completed cycle, and the error log
\* holds exactly one entry, for the load failure of stage 2
C14_CycleRunsWithoutStage2 ==
  (Stage2LoadFailed /\ pc = "done") =>
    /\ DOMAIN results = AllModules
    /\ \A m \in DOMAIN results : results[m] = (m = "agents.hotspot_agent")
    /\ stats.total_cycles >= 1
    /\ Len(stats.errors) = 1
    /\ stats.errors[1].agent = "risk_analysis"

\* C14 amended: when stage 2 fails to load, run() starts no cycle: the running
\* flag stays False, no stage is invoked, no result is reported, the cycle counter
\* stays 0, the error log stays empty and no final summary is printed
C14_NoCycleWithoutStage2 ==
  Stage2LoadFailed =>
    /\ ~load_ok
    /\ ~running
    /\ pc \in {"loaded", "finally", "done"}
    /\ results = EmptyMap
    /\ \A m \in AllModules : cycle_calls[m] = 0 /\ run_once_calls[m] = 0
    /\ stats.total_cycles = 0
    /\ stats.errors = << >>
    /\ summaries = << >>

\* run() has returned after a load in which only stage 2 failed
C14_Witness ==
  /\ Stage2LoadFailed
  /\ pc = "done"
  /\ DOMAIN agents = AllModules \ {"agents.risk_analyzer_agent"}

\* a step in which the timed-repeating loop catches an exception of a cycle attempt
CycleErrorStep ==
  /\ env.mode = "pipeline"
  /\ attempt'.ended = "raised"
  /\ attempt'.faults = attempt.faults + 1 \/ attempt.ended = "none"

\* a step in which a cycle attempt of the timed-repeating loop ends normally
CycleCompletedStep ==
  /\ env.mode = "pipeline"
  /\ attempt.ended = "none"
  /\ attempt'.ended = "completed"

\* C15: when a cycle attempt raises, the loop goes on (it is back at its test of
\* self.running, the flag untouched) after a sleep of the fallback delay and not
\* of the configured interval; after a cycle that completes normally while the
\* runner is running it sleeps the configured interval
C15_FallbackDelayAfterCycleError ==
  [][ /\ CycleErrorStep =>
           /\ slept' = FallbackDelay
           /\ slept' # env.global_interval
           /\ pc' = "loop_check"
           /\ running' = running
      /\ (CycleCompletedStep /\ running) =>
           /\ slept' = env.global_interval
           /\ pc' = "loop_check"
    ]_vars

\* the loop has caught an exception in a second cycle attempt, the first cycle
\* having completed with the configured interval
C15_Witness ==
  /\ pc = "loop_check"
  /\ env.global_interval = DefaultGlobalInterval
  /\ attempt = [faults |-> 1, ended |-> "raised"]
  /\ stats.total_cycles = 1
  /\ slept = FallbackDelay
  /\ running

\* C16: total_cycles never decreases and grows by one only when the loop of the
\* cycle has gone through every enabled stage, each of them run or skipped; an
\* attempt that raises before any stage ran leaves it as it is
C16_CountedOnlyAfterAllStages ==
  [][ /\ stats'.total_cycles >= stats.total_cycles
      /\ stats'.total_cycles # stats.total_cycles =>
           /\ stats'.total_cycles = stats.total_cycles + 1
           /\ CycleDone
           /\ Modules(sorted_configs) = EnabledModules(agent_configs)
           /\ DOMAIN results = Modules(sorted_configs)
      /\ (CycleErrorStep /\ (pc = "cycle_begin" \/ (pc = "stage" /\ idx = 1))) =>
           stats'.total_cycles = stats.total_cycles
    ]_vars

\* an attempt raised before any stage ran, after one cycle had been counted
C16_Witness ==
  /\ pc = "loop_check"
  /\ attempt = [faults |-> 1, ended |-> "raised"]
  /\ stats.total_cycles = 1
  /\ \A m \in AllModules : cycle_calls[m] = 0
  /\ run_once_calls["agents.hotspot_agent"] = 1

\* C17: a cycle attempt that raises after every enabled stage was attempted is
\* still counted
C17_CountedWhenRaisedAfterStages ==
  [][ (CycleErrorStep /\ CycleDone) => stats'.total_cycles = stats.total_cycles + 1 ]_vars

\* C18: in concurrent mode every run_once completed by the thread of a stage is
\* counted in the stats of that stage: runs equals the number of iterations its
\* threads have completed, and successes + errors equals runs
C18_WorkerRunsCounted ==
  env.mode = "run_forever" =>
    \A m \in DOMAIN agents :
      /\ agents[m].stats.runs = ThreadCalls(workers, m)
      /\ agents[m].stats.successes + agents[m].stats.errors = ThreadCalls(workers, m)

\* the stop() of the signal handler is at the thread of stage k in its loop
JoiningThread(k) ==
  LET order == ThreadOrder(agent_configs, threads)
  IN handler.pc = "stop_join" /\ handler.idx <= Len(order) /\ order[handler.idx] = k

WorkersStarted == pc \in {"monitor", "poll"}

\* C13: concurrent mode starts exactly one thread per loaded stage, one after the
\* other with a sleep of one second after each start; a run_once that raises ends
\* neither its own thread nor changes any other thread, a thread ends only when
\* time.sleep rejects a negative interval, and every thread keeps going through
\* its iterations whatever the others do
C13_OneWorkerPerStageIsolated ==
  /\ [](WorkersStarted =>
          /\ Len(workers) = Cardinality(DOMAIN agents)
          /\ DOMAIN threads = DOMAIN agents
          /\ \A k \in DOMAIN threads : workers[threads[k]].instance = agents[k].instance
          /\ \A k, l \in DOMAIN threads : threads[k] = threads[l] => k = l)
  /\ [][ /\ Len(workers') # Len(workers) =>
              /\ pc = "spawn"
              /\ Len(workers') = Len(workers) + 1
              /\ SubSeq(workers', 1, Len(workers)) = workers
              /\ workers'[Len(workers')].alive
              /\ slept' = StaggerDelay
         /\ \A w \in 1..Len(workers) :
              /\ (workers[w].at = "run_once" /\ workers'[w].at = "raised") =>
                   /\ workers'[w].alive
                   /\ \A v \in 1..Len(workers) : v # w => workers'[v] = workers[v]
              /\ (workers[w].alive /\ ~workers'[w].alive) =>
                   /\ env.interval < 0
                   /\ workers[w].at \in {"returned", "raised"}
        ]_vars
  /\ \A w \in 1..MaxStages :
       /\ [](( /\ w <= Len(workers)
               /\ env.interval >= 0 ) =>
                <>(w <= Len(workers) /\ workers[w].at = "run_once"))
       /\ [](( /\ w <= Len(workers)
               /\ env.interval >= 0 ) =>
                <>(w <= Len(workers) /\ workers[w].at # "run_once"))

\* MaxStages threads were started; the run_once of the first has raised MaxIters
\* times and its thread is alive, and another thread has completed a run_once
C13_Witness ==
  /\ WorkersStarted
  /\ Len(workers) = MaxStages
  /\ workers[1].at = "raised"
  /\ workers[1].iters = MaxIters
  /\ workers[1].alive
  /\ workers[2].at = "returned"
  /\ workers[2].alive

\* C19: once stop() has cleared self.running, a thread whose run_once has returned
\* or raised leaves its loop: it does not begin another run_once
C19_WorkersLeaveLoopAfterStop ==
  [][ \A w \in 1..Len(workers) :
        (~running /\ workers[w].at \in {"returned", "raised"}) =>
          workers'[w].at # "run_once" ]_vars

(***************************************************************************)
(* Single-pass mode.                                                       *)
(***************************************************************************)
\* run() has set the flag and the start time in single-pass mode
StartedOnce == env.mode = "run_once" /\ stats.start_time # None

\* the stop() called by the finally clause of run() prints the summary and returns,
\* and no stop() of the signal handler has printed one before
FinallyStopReturns ==
  pc = "stop_join" /\ pc' = "done" /\ summaries = << >>

Untorn(s) == s.successes + s.errors = s.runs

\* C23: no final summary printed while a stage's statistics are being updated
\* shows a record of a stage whose successes and errors do not add up to its runs
C23_SummaryNeverTorn ==
  \A i \in 1..Len(summaries) :
    \A k \in DOMAIN summaries[i].agents : Untorn(summaries[i].agents[k])

(***************************************************************************)
(* The flag and the loops of the sequential modes.                         *)
(***************************************************************************)
\* in timed-repeating mode stop() has cleared the flag and printed the summary
StoppedRepeating ==
  env.mode = "pipeline" /\ ~running /\ Len(summaries) >= 1

\* C25: in timed-repeating mode, once stop() has cleared the flag and printed the
\* final summary, no run_once is invoked, no cycle is started, and the statistics
\* of the stages, the error log and the cycle counter stay as the summary showed
\* them
C25_NothingRunsAfterStop ==
  [][ StoppedRepeating =>
        /\ run_once_calls' = run_once_calls
        /\ pc' # "cycle_begin"
        /\ agents' = agents
        /\ stats' = stats ]_vars

(***************************************************************************)
(* The global error log.                                                   *)
(***************************************************************************)
\* the sum of stats["errors"] over the loaded agents
RECURSIVE SumErrors(_, _)
SumErrors(ags, order) ==
  IF order = << >> THEN 0
  ELSE ags[Head(order)].stats.errors + SumErrors(ags, Tail(order))

\* C29: in the sequential modes the global error log has as many entries as the
\* loaded stages have errors in their statistics together; the log only grows by
\* one entry appended at its end, and that entry names the stage whose run_once
\* has just raised
C29_ErrorLogMatchesStageErrors ==
  /\ [](Len(stats.errors) = SumErrors(agents, LoadedOrder(agent_configs, agents)))
  /\ [][ stats'.errors # stats.errors =>
            /\ pc = "stats"
            /\ outcome = "raise"
            /\ stats'.errors = Append(stats.errors, [agent |-> sorted_configs[idx].name])
            /\ agents'[sorted_configs[idx].module].stats.errors =
                 agents[sorted_configs[idx].module].stats.errors + 1
        ]_vars

\* two cycles of the timed-repeating mode in which the run_once of stage 1 raised
C29_Witness ==
  /\ env.mode = "pipeline"
  /\ stats.total_cycles = 2
  /\ stats.errors = << [agent |-> "hotspot_fetch"], [agent |-> "hotspot_fetch"] >>
  /\ agents["agents.hotspot_agent"].stats.errors = 2

(***************************************************************************)
(* Stages that a cycle does not invoke.                                    *)
(***************************************************************************)
\* the for loop is at a stage that it will not invoke: a dependency is not a key
\* of self.agents, or the stage itself is not
AtSkippedStage ==
  /\ pc = "stage"
  /\ idx <= Len(sorted_configs)
  /\ \/ ~CheckDependencies(sorted_configs[idx], agents)
     \/ sorted_configs[idx].module \notin DOMAIN agents

\* C30: a stage that the cycle does not invoke gets the result False and the loop
\* goes to the next stage; the statistics of every stage, the global statistics
\* with the error log, the number of run_once invocations and the last sleep stay
\* as they were
C30_SkippedStageLeavesNoTrace ==
  [][ (AtSkippedStage /\ << pc, idx, results >>' # << pc, idx, results >>) =>
        /\ results' = Put(results, sorted_configs[idx].module, FALSE)
        /\ pc' = "stage"
        /\ idx' = idx + 1
        /\ agents' = agents
        /\ stats' = stats
        /\ run_once_calls' = run_once_calls
        /\ slept' = slept
        /\ now' = now ]_vars

\* a cycle has skipped stage 1, enabled after the load that left it out, and
\* stage 2, whose dependency is unmet; no statistic and no sleep records it
C30_Witness ==
  /\ pc = "stage"
  /\ idx = 3
  /\ "agents.hotspot_agent" \notin DOMAIN agents
  /\ agent_configs[1].enabled
  /\ results = Put(Put(EmptyMap, "agents.hotspot_agent", FALSE),
                   "agents.risk_analyzer_agent", FALSE)
  /\ agents["agents.risk_analyzer_agent"].stats = FreshStats
  /\ stats.errors = << >>
  /\ slept = 0
  /\ env.pipeline_delay > 0

(***************************************************************************)
(* One flow in the sequential modes.                                       *)
(***************************************************************************)
Sequential == env.mode \in {"run_once", "pipeline"}

\* the run_once invocations of module m that have begun and not yet returned or
\* raised: those begun minus those counted in stats["runs"]
InFlight(m) ==
  run_once_calls[m] - (IF m \in DOMAIN agents THEN agents[m].stats.runs ELSE 0)

\* the enabled descriptors with a priority below that of config
LowerStages(cfgs, config) ==
  {cfgs[i].module : i \in {j \in 1..Len(cfgs) :
                              cfgs[j].enabled /\ cfgs[j].priority < config.priority}}

\* C22: in the single-pass and the timed-repeating mode no thread is ever started
\* and at most one run_once is in flight, that of the stage the for loop is at;
\* when the loop is at a stage, attempting it or running it, every enabled stage
\* with a lower priority number has its result of this cycle (it ran or was
\* skipped) and no stage behind it has one
C22_OneStageAtATimeInOrder ==
  Sequential =>
    /\ workers = << >>
    /\ threads = EmptyMap
    /\ \A m \in AllModules : InFlight(m) \in {0, 1}
    /\ \A m, n \in AllModules : (InFlight(m) = 1 /\ InFlight(n) = 1) => m = n
    /\ \A m \in AllModules :
         InFlight(m) = 1 => (pc = "invoke" /\ sorted_configs[idx].module = m)
    /\ (InCycle /\ idx <= Len(sorted_configs)) =>
         /\ LowerStages(agent_configs, sorted_configs[idx]) \subseteq DOMAIN results
         /\ DOMAIN results = {sorted_configs[j].module : j \in 1..(idx - 1)}
         /\ \A j \in 1..(idx - 1) :
              sorted_configs[j].priority <= sorted_configs[idx].priority

\* the second cycle of the timed-repeating mode is at stage 4: stage 1 has run
\* again, stages 2 and 3 were attempted, nothing is in flight
C22_Witness ==
  /\ env.mode = "pipeline"
  /\ stats.total_cycles = 1
  /\ pc = "stage"
  /\ idx = 4
  /\ run_once_calls["agents.hotspot_agent"] = 2
  /\ agents["agents.hotspot_agent"].stats.runs = 2
  /\ results["agents.hotspot_agent"]
  /\ DOMAIN results = {"agents.hotspot_agent", "agents.risk_analyzer_agent",
                       "agents.material_collector_agent"}

(***************************************************************************)
(* The life of a worker thread.                                            *)
(***************************************************************************)
\* the flow of run() executes the liveness poll
PollStep == pc = "poll" /\ pc' = "monitor"

\* a thread is started by the start-up loop
StartupStep == pc = "spawn" /\ idx' = idx + 1

\* C24: a thread is alive from its start until it ends and never comes back to
\* life; the liveness poll that finds fewer live threads than were started records
\* a warning and changes nothing else; a thread is started only by the start-up
\* loop or by a restart_agent call that returns True, and self.threads changes in
\* no other way
C24_NoAutomaticRecovery ==
  [][ /\ \A w \in 1..Len(workers) :
           /\ w <= Len(workers')
           /\ workers'[w].alive => workers[w].alive
           /\ workers'[w].instance = workers[w].instance
      /\ PollStep =>
           /\ workers' = workers
           /\ threads' = threads
           /\ Cardinality(AliveThreads(threads, workers)) < Cardinality(DOMAIN threads)
                => [kind |-> "monitor", agent |-> "all"] \in warnings'
           /\ Cardinality(AliveThreads(threads, workers)) = Cardinality(DOMAIN threads)
                => warnings' = warnings
      /\ (Len(workers') # Len(workers) \/ threads' # threads) =>
           /\ Len(workers') = Len(workers) + 1
           /\ workers'[Len(workers')].alive
           /\ StartupStep \/ (RestartStep /\ call'.ret)
    ]_vars

\* all six threads were started, one of them has ended, the poll has recorded the
\* warning, and no thread has taken the place of the one that ended
C24_Witness ==
  /\ pc = "monitor"
  /\ running
  /\ Len(workers) = 6
  /\ Restarts(workers) = 0
  /\ \E w \in 1..Len(workers) : ~workers[w].alive
  /\ [kind |-> "monitor", agent |-> "all"] \in warnings
  /\ \A k \in DOMAIN threads : workers[threads[k]].restart = FALSE

\* the live threads that execute the run_forever of the agent of stage k
LiveWorkersOf(k) ==
  {w \in 1..Len(workers) : workers[w].alive /\ workers[w].instance = agents[k].instance}

\* C27: at any time at most one live thread executes the run_forever of the agent
\* of a stage
C27_OneLiveWorkerPerStage ==
  \A k \in DOMAIN agents : Cardinality(LiveWorkersOf(k)) <= 1

\* C28: a thread is started only while self.running is True
C28_WorkersStartedOnlyWhileRunning ==
  [][ Len(workers') > Len(workers) => running ]_vars

(***************************************************************************)
(* Signals.                                                                *)
(***************************************************************************)
\* run() has returned with the flag cleared
ShutDown == pc = "done" /\ ~running

\* C26: whenever a termination signal is delivered, the flag ends up False and
\* run() returns
C26_SignalLeadsToShutdown ==
  (handler.pc = "stop_test") ~> ShutDown

====
